---- MODULE Spec2Model ----
(***************************************************************************)
(* Model of the agenda calendar of src/js/agenda-bundle.js (the second,    *)
(* effective definitions of the bundle, lines 199-432): the event-range    *)
(* normalisation (buildEventRanges), the range queries (hasEventsInRange,  *)
(* findNextEventDate, findPrevEventDate), renderAgenda and the callbacks   *)
(* it registers on the calendar widget (datesSet, viewDidMount, dateClick).*)
(*                                                                         *)
(* Time is counted in minutes of the America/Bogota wall clock from the    *)
(* midnight of a day 0.  The zone has no daylight-saving transitions, so   *)
(* luxon's plus({days: 1}) is plus 1440 minutes and toISODate() is the     *)
(* integer division by 1440.                                               *)
(***************************************************************************)
EXTENDS Integers, Sequences, FiniteSets

VARIABLES
    config,            \* window.KAUKA_CONFIG.events as found by renderAgenda
    rendered,          \* renderAgenda has run and the calendar exists
    eventRanges,       \* var eventRanges of renderAgenda
    sortedRanges,      \* var sortedRanges of renderAgenda
    lastViewStart,     \* var lastViewStart (Absent for null)
    lastViewType,      \* var lastViewType (NoType for null)
    isAutoNavigating,  \* var isAutoNavigating
    info,              \* the argument of the last datesSet invocation
    entry,             \* the closure variables as the last datesSet invocation found them,
                       \* whether the invocation before it called gotoDate, and whether
                       \* this one ran inside that call
    target,            \* const target of the last datesSet invocation (Absent: null or not computed)
    gotoCalls,         \* the arguments of the gotoDate calls of the last datesSet invocation
    title,             \* which template updateTitle last wrote into .fc-toolbar-title
    changeViewReq,     \* the last calendar.changeView request of dateClick
    containerVisible,  \* .agenda-container carries the class "visible"
    calendarClass,     \* the classes of #calendar that renderAgenda reads
    bounds,            \* var bounds of renderAgenda
    initialDate,       \* calendarOptions.initialDate
    validRange,        \* calendarOptions.validRange
    probe,             \* a direct call of one of the range functions: arguments and result
    readyState,        \* document.readyState: "loading", then "interactive"
    \* src/js/header-bundle.js
    toggleListener,    \* initHeaderToggle has added its click listener to the document
    headerDeferred,    \* initHeaderOnReady has added its two DOMContentLoaded listeners
    dropdownListeners, \* initializeDropdownToggle has run
    hoverListeners,    \* initializeNavOverlayHover has added its listeners to #nav
    toggleChecked,     \* #nav-toggle.checked
    menuClasses,       \* the classes of #navbar-menu-container the code writes
    overlayClasses,    \* the classes of #nav-overlay the code writes
    dropdownClasses,   \* the classes of every .nav-dropdown-list the code writes
    navbarHeight,      \* .navbar style.height
    lastEvent,         \* the last event delivered to the header, and what it found
    \* src/unnamed/part_001
    scriptPos,         \* how far the evaluation of the script has come
    bgListeners,       \* the DOMContentLoaded listeners the script has added, in order
    bgEnv,             \* what initBgImageScroll finds on the page
    bgRuns,            \* the invocations of initBgImageScroll and where each stands
    bgTriggers,        \* the ScrollTriggers created with id "bgImageScroll"
    \* src/js/pc-bundle.js
    hsEnv,             \* what initHorizontalScroll finds on the page
    hsCall,            \* the arguments of the caller's initHomeHorizontalScroll call
    hsDeferred,        \* the function is a DOMContentLoaded listener
    hsUsed,            \* outer and inner of the invocation that went past the readyState test
    horizontalScroll,  \* let horizontalScroll of that invocation
    hsLive,            \* ScrollTriggers created by initHorizontalScroll and not killed
    hsThrew,           \* an invocation of handleHorizontalScroll ended with an exception
    innerWidth,        \* window.innerWidth
    resizeListener,    \* the resize listener is added
    resizeTimeout,     \* a timer set by the resize listener is pending
    hsHandledWidth     \* window.innerWidth at the last run of handleHorizontalScroll

vars == <<config, rendered, eventRanges, sortedRanges, lastViewStart, lastViewType,
          isAutoNavigating, info, entry, target, gotoCalls, title, changeViewReq,
          containerVisible, calendarClass, bounds, initialDate, validRange, probe,
          readyState, toggleListener, headerDeferred, dropdownListeners, hoverListeners,
          toggleChecked, menuClasses, overlayClasses, dropdownClasses, navbarHeight,
          lastEvent, scriptPos, bgListeners, bgEnv, bgRuns, bgTriggers, hsEnv, hsCall,
          hsDeferred, hsUsed, horizontalScroll, hsLive, hsThrew, innerWidth,
          resizeListener, resizeTimeout, hsHandledWidth>>

\* the variables of the agenda, of the header, of the home page script and of
\* the horizontal scroll
agendaVars ==
    <<config, rendered, eventRanges, sortedRanges, lastViewStart, lastViewType,
      isAutoNavigating, info, entry, target, gotoCalls, title, changeViewReq,
      containerVisible, calendarClass, bounds, initialDate, validRange, probe>>

headerVars ==
    <<toggleListener, headerDeferred, dropdownListeners, hoverListeners, toggleChecked,
      menuClasses, overlayClasses, dropdownClasses, navbarHeight, lastEvent>>

bgVars == <<scriptPos, bgListeners, bgEnv, bgRuns, bgTriggers>>

hsVars ==
    <<hsEnv, hsCall, hsDeferred, hsUsed, horizontalScroll, hsLive, hsThrew, innerWidth,
      resizeListener, resizeTimeout, hsHandledWidth>>

pageVars == <<readyState, headerVars, bgVars, hsVars>>

(***************************************************************************)
(* Bounds of the model.                                                    *)
(***************************************************************************)
MaxBuildDay == 1       \* raw strings of the normalisation inputs name days 0..MaxBuildDay
MaxBuildEvents == 1    \* length of the raw lists of the normalisation specification
MaxNavDay == 2         \* events and view windows of the navigation specification lie in days 0..MaxNavDay
MaxEvents == 2         \* length of the raw lists of the navigation specification
MaxQueryTime == 3      \* the range lists and arguments of the direct calls use instants 0..MaxQueryTime
MaxQueryRanges == 2    \* length of the range lists of the direct calls
MaxDropdowns == 2      \* number of .nav-dropdown elements of the header

(***************************************************************************)
(* Values.                                                                 *)
(***************************************************************************)
MinutesPerDay == 1440
Absent == -1                      \* null where a DateTime is expected; an invalid DateTime
NoType == "null"                  \* null where a view type is expected
NullRange == [start |-> Absent, end |-> Absent]   \* the null the map callback returns
NoBounds == [present |-> FALSE, start |-> Absent, end |-> Absent]   \* the null of getEventBounds

BuildDays == 0..MaxBuildDay
NavDays == 0..MaxNavDay
MinuteChoices == {0, 600}

\* A raw ISO string field of an event: missing, not ISO, or one of the ISO
\* forms luxon parses: "YYYY-MM-DD", "YYYY-MM-DDTHH:mm", the basic date
\* "YYYYMMDD" and the basic ordinal date with an hour "YYYYDDDTHH".
MissingStr == [kind |-> "missing", day |-> 0, minute |-> 0]
BadStr == [kind |-> "bad", day |-> 0, minute |-> 0]
DateStr(d) == [kind |-> "date", day |-> d, minute |-> 0]
DateTimeStr(d, m) == [kind |-> "datetime", day |-> d, minute |-> m]
BasicDateStr(d) == [kind |-> "basicdate", day |-> d, minute |-> 0]
OrdinalHourStr(d) == [kind |-> "ordinalhour", day |-> d, minute |-> 600]

RawStrings(days) ==
    {MissingStr, BadStr} \cup {DateStr(d) : d \in days}
        \cup {DateTimeStr(d, m) : d \in days, m \in MinuteChoices}
        \cup {BasicDateStr(d) : d \in days} \cup {OrdinalHourStr(d) : d \in days}

\* event.end.length: 10 for "YYYY-MM-DD" and for "YYYYDDDTHH", 16 for
\* "YYYY-MM-DDTHH:mm", 8 for "YYYYMMDD"; the length of the unparseable string
\* is any other number.
StrLen(s) ==
    CASE s.kind = "date" -> 10
      [] s.kind = "ordinalhour" -> 10
      [] s.kind = "datetime" -> 16
      [] s.kind = "basicdate" -> 8
      [] OTHER -> 3

\* luxon.DateTime.fromISO(s, {zone}): the instant, or an invalid DateTime.
FromISO(s) ==
    IF s.kind \in {"date", "datetime", "basicdate", "ordinalhour"}
    THEN s.day * MinutesPerDay + s.minute
    ELSE Absent

IsValid(t) == t # Absent

\* DateTime.toISODate(): the calendar day of the instant.
ToISODate(t) == t \div MinutesPerDay

NullEvent == [present |-> FALSE, start |-> MissingStr, end |-> MissingStr, allDay |-> "absent"]

RawEvents(days) ==
    {NullEvent} \cup
    [present : {TRUE}, start : RawStrings(days), end : RawStrings(days),
     allDay : {"absent", "false", "true"}]

SeqsUpTo(S, n) == UNION {[1..k -> S] : k \in 0..n}

(***************************************************************************)
(* buildEventRanges (lines 199-226).                                       *)
(***************************************************************************)
\* The callback of events.map.
MapEventTimedNoExpand(event) ==
    IF ~event.present \/ event.start.kind = "missing" THEN NullRange
    ELSE LET start == FromISO(event.start)
             parsed == IF event.end.kind # "missing" THEN FromISO(event.end) ELSE Absent
             end0 == IF ~IsValid(parsed) THEN start ELSE parsed
         IN  IF ~IsValid(start) THEN NullRange
             ELSE IF event.allDay = "true"
                  THEN IF end0 <= start
                       THEN [start |-> start, end |-> start + MinutesPerDay]
                       ELSE IF StrLen(event.end) = 10
                            THEN [start |-> start, end |-> end0 + MinutesPerDay]
                            ELSE [start |-> start, end |-> end0]
                  ELSE [start |-> start, end |-> end0]

MapEventAllDayMinute(event) ==
    IF ~event.present \/ event.start.kind = "missing" THEN NullRange
    ELSE LET start == FromISO(event.start)
             parsed == IF event.end.kind # "missing" THEN FromISO(event.end) ELSE Absent
             end0 == IF ~IsValid(parsed) THEN start ELSE parsed
         IN  IF ~IsValid(start) THEN NullRange
             ELSE IF end0 <= start
                  THEN [start |-> start, end |-> start + 1]
                  ELSE IF event.allDay = "true" /\ StrLen(event.end) = 10
                       THEN [start |-> start, end |-> end0 + MinutesPerDay]
                       ELSE [start |-> start, end |-> end0]

MapEventAllDayNoExpand(event) ==
    IF ~event.present \/ event.start.kind = "missing" THEN NullRange
    ELSE LET start == FromISO(event.start)
             parsed == IF event.end.kind # "missing" THEN FromISO(event.end) ELSE Absent
             end0 == IF ~IsValid(parsed) THEN start ELSE parsed
         IN  IF ~IsValid(start) THEN NullRange
             ELSE IF event.allDay = "true"
                  THEN IF end0 > start /\ StrLen(event.end) = 10
                       THEN [start |-> start, end |-> end0 + MinutesPerDay]
                       ELSE [start |-> start, end |-> end0]
                  ELSE IF end0 <= start
                       THEN [start |-> start, end |-> start + 1]
                       ELSE [start |-> start, end |-> end0]

MapEventTimedDay(event) ==
    IF ~event.present \/ event.start.kind = "missing" THEN NullRange
    ELSE LET start == FromISO(event.start)
             parsed == IF event.end.kind # "missing" THEN FromISO(event.end) ELSE Absent
             end0 == IF ~IsValid(parsed) THEN start ELSE parsed
         IN  IF ~IsValid(start) THEN NullRange
             ELSE IF end0 <= start
                  THEN [start |-> start, end |-> start + MinutesPerDay]
                  ELSE IF event.allDay = "true" /\ StrLen(event.end) = 10
                       THEN [start |-> start, end |-> end0 + MinutesPerDay]
                       ELSE [start |-> start, end |-> end0]

MapEvent(event) ==
    IF ~event.present \/ event.start.kind = "missing" THEN NullRange
    ELSE LET start == FromISO(event.start)
             parsed == IF event.end.kind # "missing" THEN FromISO(event.end) ELSE Absent
             end0 == IF ~IsValid(parsed) THEN start ELSE parsed
         IN  IF ~IsValid(start) THEN NullRange
             ELSE IF event.allDay = "true"
                  THEN IF end0 <= start
                       THEN [start |-> start, end |-> start + MinutesPerDay]
                       ELSE IF StrLen(event.end) = 10
                            THEN [start |-> start, end |-> end0 + MinutesPerDay]
                            ELSE [start |-> start, end |-> end0]
                  ELSE IF end0 <= start
                       THEN [start |-> start, end |-> start + 1]
                       ELSE [start |-> start, end |-> end0]

IsRange(r) == r # NullRange

\* events: [isArray, items]; a value that is no array yields [].
buildEventRangesNoFilter(events) ==
    IF ~events.isArray THEN <<>>
    ELSE [i \in 1..Len(events.items) |-> MapEvent(events.items[i])]

buildEventRanges(events) ==
    IF ~events.isArray THEN <<>>
    ELSE SelectSeq([i \in 1..Len(events.items) |-> MapEvent(events.items[i])], IsRange)

(***************************************************************************)
(* getEventBounds (lines 228-237): null for an empty list, otherwise the   *)
(* fold of lines 230-235 over the list in its order.                       *)
(***************************************************************************)
RECURSIVE BoundsFold(_, _, _, _)
BoundsFold(ranges, i, minStart, maxEnd) ==
    IF i > Len(ranges) THEN [present |-> TRUE, start |-> minStart, end |-> maxEnd]
    ELSE BoundsFold(ranges, i + 1,
                    IF ranges[i].start < minStart THEN ranges[i].start ELSE minStart,
                    IF ranges[i].end > maxEnd THEN ranges[i].end ELSE maxEnd)

getEventBoundsFirstLast(ranges) ==
    IF Len(ranges) = 0 THEN NoBounds
    ELSE [present |-> TRUE, start |-> ranges[1].start, end |-> ranges[Len(ranges)].end]

getEventBounds(ranges) ==
    IF Len(ranges) = 0 THEN NoBounds
    ELSE BoundsFold(ranges, 1, ranges[1].start, ranges[1].end)

(***************************************************************************)
(* The range queries (lines 239-255).                                      *)
(***************************************************************************)
hasEventsInRangeTouching(ranges, rangeStart, rangeEnd) ==
    \E i \in 1..Len(ranges) : ranges[i].start <= rangeEnd /\ ranges[i].end >= rangeStart

hasEventsInRangeEvery(ranges, rangeStart, rangeEnd) ==
    \A i \in 1..Len(ranges) : ranges[i].start < rangeEnd /\ ranges[i].end > rangeStart

hasEventsInRange(ranges, rangeStart, rangeEnd) ==
    \E i \in 1..Len(ranges) : ranges[i].start < rangeEnd /\ ranges[i].end > rangeStart

findNextEventDateStrict(ranges, afterDate) ==
    LET hits == {i \in 1..Len(ranges) : ranges[i].start > afterDate}
    IN  IF hits = {} THEN Absent
        ELSE ranges[CHOOSE i \in hits : \A j \in hits : i <= j].start

findNextEventDate(ranges, afterDate) ==
    LET hits == {i \in 1..Len(ranges) : ranges[i].start >= afterDate}
    IN  IF hits = {} THEN Absent
        ELSE ranges[CHOOSE i \in hits : \A j \in hits : i <= j].start

findPrevEventDateInclusive(ranges, beforeDate) ==
    LET hits == {i \in 1..Len(ranges) : ranges[i].start <= beforeDate}
    IN  IF hits = {} THEN Absent
        ELSE ranges[CHOOSE i \in hits : \A j \in hits : i >= j].start

findPrevEventDate(ranges, beforeDate) ==
    LET hits == {i \in 1..Len(ranges) : ranges[i].start < beforeDate}
    IN  IF hits = {} THEN Absent
        ELSE ranges[CHOOSE i \in hits : \A j \in hits : i >= j].start

(***************************************************************************)
(* eventRanges.slice().sort(by start) (line 303): Array.prototype.sort is  *)
(* stable, so the result is what insertion after the last element with a   *)
(* start not greater builds.                                               *)
(***************************************************************************)
\* (the first variant puts an element before the elements of equal start)
InsertByStartBeforeTies(sorted, r) ==
    LET k == Cardinality({i \in 1..Len(sorted) : sorted[i].start < r.start})
    IN  SubSeq(sorted, 1, k) \o <<r>> \o SubSeq(sorted, k + 1, Len(sorted))

InsertByStart(sorted, r) ==
    LET k == Cardinality({i \in 1..Len(sorted) : sorted[i].start <= r.start})
    IN  SubSeq(sorted, 1, k) \o <<r>> \o SubSeq(sorted, k + 1, Len(sorted))

RECURSIVE SortByStart(_)
SortByStart(ranges) ==
    IF Len(ranges) = 0 THEN <<>>
    ELSE InsertByStart(SortByStart(SubSeq(ranges, 1, Len(ranges) - 1)), ranges[Len(ranges)])

(***************************************************************************)
(* The view-change signal.  The widget is a collaborator outside the       *)
(* repository: the model lets it deliver any view kind with any            *)
(* day-aligned window (one day long for listDay), in any order.            *)
(* luxon.DateTime.fromJSDate(d, {zone}) keeps the instant of d, so the     *)
(* window is given by its two instants.                                    *)
(***************************************************************************)
ViewTypes == {"listWeek", "listMonth", "listDay"}

Marks == {d * MinutesPerDay : d \in 0..(MaxNavDay + 1)}

ViewWindows(type) ==
    IF type = "listDay"
    THEN {<<d * MinutesPerDay, (d + 1) * MinutesPerDay>> : d \in NavDays}
    ELSE {w \in Marks \X Marks : w[1] < w[2]}

NoInfo == [type |-> NoType, currentStart |-> Absent, currentEnd |-> Absent]
NoEntry == [lastViewStart |-> Absent, lastViewType |-> NoType,
            isAutoNavigating |-> FALSE, jumped |-> FALSE, nested |-> FALSE]
NoRequest == [view |-> NoType, date |-> Absent]

(***************************************************************************)
(* updateTitle (lines 129-197), as far as the template it writes.          *)
(***************************************************************************)
updateTitle(old, type) ==
    IF type \in {"listWeek", "listMonth"} THEN type ELSE old

(***************************************************************************)
(* datesSet (lines 333-372), piece by piece.  Every piece returns the      *)
(* values the closure variables have when the handler returns, with the    *)
(* local target and the gotoDate calls made.                               *)
(***************************************************************************)
\* lines 341-343
ResetViewStartNever(lvt, lvs, type) == lvs

ResetViewStart(lvt, lvs, type) ==
    IF lvt # NoType /\ lvt # type THEN Absent ELSE lvs

\* line 344
RecordViewTypeOnce(lvt, type) == IF lvt = NoType THEN lvt ELSE type

RecordViewType(lvt, type) == type

\* lines 346-350
ConsumeJumpKeepsFlag(viewStart) ==
    [lastViewStart |-> viewStart, isAutoNavigating |-> TRUE,
     target |-> Absent, gotoCalls |-> <<>>]

ConsumeJump(viewStart) ==
    [lastViewStart |-> viewStart, isAutoNavigating |-> FALSE,
     target |-> Absent, gotoCalls |-> <<>>]

\* line 352
IsTrackedViewAnyList(type) == type \in {"listWeek", "listMonth", "listDay"}

IsTrackedView(type) == type \in {"listWeek", "listMonth"}

\* lines 357-358
NavDirectionReversed(lvs, viewStart) ==
    IF lvs # Absent /\ viewStart > lvs THEN -1 ELSE 1

NavDirection(lvs, viewStart) ==
    IF lvs # Absent /\ viewStart < lvs THEN -1 ELSE 1

\* lines 359-361
NavTargetSwapped(direction, sorted, viewStart, viewEnd) ==
    IF direction = -1
    THEN findNextEventDate(sorted, viewEnd)
    ELSE findPrevEventDate(sorted, viewStart)

NavTarget(direction, sorted, viewStart, viewEnd) ==
    IF direction = -1
    THEN findPrevEventDate(sorted, viewStart)
    ELSE findNextEventDate(sorted, viewEnd)

\* lines 363-367: the flag, the jump, the return that skips line 370
JumpToFlagAfterSignal(lvs, viewStart, tgt) ==
    [lastViewStart |-> lvs, isAutoNavigating |-> FALSE,
     target |-> tgt, gotoCalls |-> <<ToISODate(tgt)>>]

JumpToRecordsStart(lvs, viewStart, tgt) ==
    [lastViewStart |-> viewStart, isAutoNavigating |-> TRUE,
     target |-> tgt, gotoCalls |-> <<ToISODate(tgt)>>]

JumpTo(lvs, viewStart, tgt) ==
    [lastViewStart |-> lvs, isAutoNavigating |-> TRUE,
     target |-> tgt, gotoCalls |-> <<ToISODate(tgt)>>]

\* line 370, reached with a populated window and with an empty window that
\* has no target
RecordStartSkipped(lvs, viewStart, tgt) ==
    [lastViewStart |-> lvs, isAutoNavigating |-> FALSE,
     target |-> tgt, gotoCalls |-> <<>>]

RecordStart(lvs, viewStart, tgt) ==
    [lastViewStart |-> viewStart, isAutoNavigating |-> FALSE,
     target |-> tgt, gotoCalls |-> <<>>]

\* line 356: the emptiness test of the signalled window (the first variant
\* asks every range to overlap)
WindowHasEventsEvery(ranges, viewStart, viewEnd) ==
    \A i \in 1..Len(ranges) : ranges[i].start < viewEnd /\ ranges[i].end > viewStart

WindowHasEvents(ranges, viewStart, viewEnd) ==
    hasEventsInRange(ranges, viewStart, viewEnd)

\* lines 352-371
NavigateIfEmpty(lvs, type, viewStart, viewEnd) ==
    IF IsTrackedView(type)
    THEN IF ~WindowHasEvents(eventRanges, viewStart, viewEnd)
         THEN LET direction == NavDirection(lvs, viewStart)
                  tgt == NavTarget(direction, sortedRanges, viewStart, viewEnd)
              IN  IF tgt # Absent
                  THEN JumpTo(lvs, viewStart, tgt)
                  ELSE RecordStart(lvs, viewStart, tgt)
         ELSE RecordStart(lvs, viewStart, Absent)
    ELSE [lastViewStart |-> lvs, isAutoNavigating |-> FALSE,
          target |-> Absent, gotoCalls |-> <<>>]

\* lines 341-371, entered with a non-empty eventRanges
HandleDatesSet(type, viewStart, viewEnd) ==
    LET lvs == ResetViewStart(lastViewType, lastViewStart, type)
    IN  IF isAutoNavigating
        THEN ConsumeJump(viewStart)
        ELSE NavigateIfEmpty(lvs, type, viewStart, viewEnd)

\* lines 364-366 when the widget delivers the signal of the new window
\* inside gotoDate: the nested invocation of datesSet finds the closure
\* variables as the outer one has left them at the call (lastViewType is the
\* kind just recorded, the flag is the one of line 364), and the outer
\* invocation returns right after the call.  The first variant raises the
\* flag after the call.
NestedDatesSet(flag, lvs, type, landedStart, landedEnd) ==
    IF flag
    THEN ConsumeJump(landedStart)
    ELSE NavigateIfEmpty(ResetViewStart(type, lvs, type), type, landedStart, landedEnd)

JumpWithNestedSignalFlagLate(lvs, type, landedStart, landedEnd) ==
    LET flagAtCall == FALSE
        n == NestedDatesSet(flagAtCall, lvs, type, landedStart, landedEnd)
    IN  [atCall |-> flagAtCall, after |-> [n EXCEPT !.isAutoNavigating = TRUE]]

JumpWithNestedSignal(lvs, type, landedStart, landedEnd) ==
    LET flagAtCall == TRUE
        n == NestedDatesSet(flagAtCall, lvs, type, landedStart, landedEnd)
    IN  [atCall |-> flagAtCall, after |-> n]

(***************************************************************************)
(* Initial states: the page is loaded, renderAgenda has not run.           *)
(***************************************************************************)
\* The events of the navigation specification: on every odd day an all-day
\* event of one day (date-only start, no end), on every even day a timed event
\* from 10:00 to 11:00.
AllDayEvent(d) ==
    [present |-> TRUE, start |-> DateStr(d), end |-> MissingStr, allDay |-> "true"]

TimedEvent(d) ==
    [present |-> TRUE, start |-> DateTimeStr(d, 600), end |-> DateTimeStr(d, 660),
     allDay |-> "false"]

NavEvents == {IF d % 2 = 1 THEN AllDayEvent(d) ELSE TimedEvent(d) : d \in NavDays}

Configs(events, n) ==
    {[isArray |-> FALSE, items |-> <<>>]}
        \cup {[isArray |-> TRUE, items |-> s] : s \in SeqsUpTo(events, n)}

\* Entries that yield no range: a null entry, an entry without start, an
\* entry whose start luxon cannot parse.
NoStartEvent ==
    [present |-> TRUE, start |-> MissingStr, end |-> DateStr(0), allDay |-> "absent"]

BadStartEvent ==
    [present |-> TRUE, start |-> BadStr, end |-> DateStr(0), allDay |-> "absent"]

\* A second timed event of day 0 with the start of TimedEvent(0) and a later
\* end: two ranges that tie in the sort and can be told apart.
TieEvent ==
    [present |-> TRUE, start |-> DateTimeStr(0, 600), end |-> DateTimeStr(0, 720),
     allDay |-> "false"]

SortEvents == NavEvents \cup {TieEvent}

MixedEvents == NavEvents \cup {NullEvent, NoStartEvent, BadStartEvent}

\* A list of entries, held by an array or by a value that is no array (an
\* array-like object, or nothing at all).
MixedConfigs == [isArray : BOOLEAN, items : SeqsUpTo(MixedEvents, MaxEvents)]

\* The classes of #calendar: neither variant for the navigation.
CalendarClasses == [encuentros : BOOLEAN, principal : BOOLEAN]

PlainCalendar == [encuentros |-> FALSE, principal |-> FALSE]

NoDate == [set |-> FALSE, date |-> 0]
NoValidRange == [set |-> FALSE, start |-> 0, end |-> 0]

\* The arguments of the direct calls: range lists over small instants, with
\* end > start as buildEventRanges builds them, in any order.
QueryTimes == 0..MaxQueryTime

QueryRanges == {r \in [start : QueryTimes, end : QueryTimes] : r.start < r.end}

NoProbe == [fn |-> "none", ready |-> FALSE, ranges |-> <<>>, a |-> Absent, b |-> Absent,
            flag |-> FALSE, time |-> Absent, bounds |-> NoBounds]

QueryProbes ==
    {[NoProbe EXCEPT !.ready = TRUE, !.ranges = rs] :
        rs \in SeqsUpTo(QueryRanges, MaxQueryRanges)}

(***************************************************************************)
(* The other scripts of the site, before any of their code has run.  The   *)
(* markup is not part of the repository: the menu, the overlay and the     *)
(* dropdown lists start with the class "hidden", the state the handlers    *)
(* restore when they hide them.                                            *)
(***************************************************************************)
Dropdowns == 1..MaxDropdowns

NoEvent == [kind |-> "none", k |-> 0, menuOpen |-> FALSE, overlayBefore |-> {},
            listHidden |-> FALSE]

HeaderIdle ==
    /\ toggleListener = FALSE
    /\ headerDeferred = FALSE
    /\ dropdownListeners = FALSE
    /\ hoverListeners = FALSE
    /\ toggleChecked = FALSE
    /\ menuClasses = {"hidden"}
    /\ overlayClasses = {"hidden"}
    /\ dropdownClasses = [k \in Dropdowns |-> {"hidden"}]
    /\ navbarHeight = "unset"
    /\ lastEvent = NoEvent

\* gsap and ScrollTrigger are loaded, .home-content-bg-image and
\* #home-content exist, and #home-img holds an image
BgEnvs == [gsap : BOOLEAN, scrollTrigger : BOOLEAN, bgImage : BOOLEAN,
           section : BOOLEAN, logo : BOOLEAN]

AllThere == [gsap |-> TRUE, scrollTrigger |-> TRUE, bgImage |-> TRUE,
             section |-> TRUE, logo |-> TRUE]

BgIdle ==
    /\ scriptPos = "start"
    /\ bgListeners = <<>>
    /\ bgEnv = AllThere
    /\ bgRuns = <<>>
    /\ bgTriggers = 0

MdBreakpoint == 768

HsEnvs == [gsap : BOOLEAN, scrollTrigger : BOOLEAN, container : BOOLEAN,
           scrollable : BOOLEAN]

NoCall == [outer |-> "none", inner |-> "none"]

HsIdle ==
    /\ hsEnv = [gsap |-> TRUE, scrollTrigger |-> TRUE, container |-> TRUE,
                scrollable |-> TRUE]
    /\ hsCall = NoCall
    /\ hsDeferred = FALSE
    /\ hsUsed = NoCall
    /\ horizontalScroll = "null"
    /\ hsLive = 0
    /\ hsThrew = FALSE
    /\ innerWidth = MdBreakpoint
    /\ resizeListener = FALSE
    /\ resizeTimeout = FALSE
    /\ hsHandledWidth = Absent

\* the agenda of a page that has none: renderAgenda never runs
AgendaIdle ==
    /\ config = [isArray |-> FALSE, items |-> <<>>]
    /\ calendarClass = PlainCalendar
    /\ probe = NoProbe
    /\ rendered = FALSE
    /\ eventRanges = <<>>
    /\ sortedRanges = <<>>
    /\ bounds = NoBounds
    /\ initialDate = NoDate
    /\ validRange = NoValidRange
    /\ lastViewStart = Absent
    /\ lastViewType = NoType
    /\ isAutoNavigating = FALSE
    /\ info = NoInfo
    /\ entry = NoEntry
    /\ target = Absent
    /\ gotoCalls = <<>>
    /\ title = NoType
    /\ changeViewReq = NoRequest
    /\ containerVisible = FALSE

InitWith(configs, classes, probes) ==
    /\ config \in configs
    /\ calendarClass \in classes
    /\ probe \in probes
    /\ rendered = FALSE
    /\ eventRanges = <<>>
    /\ sortedRanges = <<>>
    /\ bounds = NoBounds
    /\ initialDate = NoDate
    /\ validRange = NoValidRange
    /\ lastViewStart = Absent
    /\ lastViewType = NoType
    /\ isAutoNavigating = FALSE
    /\ info = NoInfo
    /\ entry = NoEntry
    /\ target = Absent
    /\ gotoCalls = <<>>
    /\ title = NoType
    /\ changeViewReq = NoRequest
    /\ containerVisible = FALSE
    /\ readyState = "interactive"
    /\ HeaderIdle
    /\ BgIdle
    /\ HsIdle

Init == InitWith(Configs(NavEvents, MaxEvents), {PlainCalendar}, {NoProbe})

InitBuild ==
    InitWith(Configs(RawEvents(BuildDays), MaxBuildEvents), {PlainCalendar}, {NoProbe})

InitSort == InitWith(Configs(SortEvents, MaxEvents), {PlainCalendar}, {NoProbe})

InitRender == InitWith(MixedConfigs, CalendarClasses, {NoProbe})

InitPipeline == InitWith(MixedConfigs, {PlainCalendar}, {NoProbe})

InitQuery == InitWith({[isArray |-> TRUE, items |-> <<>>]}, {PlainCalendar}, QueryProbes)

(***************************************************************************)
(* The options renderAgenda derives from the classes of #calendar and from *)
(* bounds (lines 288-297 and 393-416).  Calendar dates are days counted    *)
(* from 2025-11-25, the day 0 of the model.                                *)
(***************************************************************************)
EncuentrosStartDay == 0
EncuentrosEndDay == 13
PrincipalStartDay == -208
PrincipalEndDay == 37

encuentrosRange == [set |-> TRUE, start |-> EncuentrosStartDay, end |-> EncuentrosEndDay]
principalRange == [set |-> TRUE, start |-> PrincipalStartDay, end |-> PrincipalEndDay]

\* DateTime.startOf("day")
StartOfDay(t) == (t \div MinutesPerDay) * MinutesPerDay

\* lines 393-403
FallbackRangePrincipalFirst(class, bnds) ==
    IF class.principal /\ ~bnds.present THEN principalRange
    ELSE IF class.encuentros /\ ~bnds.present THEN encuentrosRange
    ELSE NoValidRange

FallbackRange(class, bnds) ==
    IF class.encuentros
    THEN IF ~bnds.present THEN encuentrosRange ELSE NoValidRange
    ELSE IF class.principal
         THEN IF ~bnds.present THEN principalRange ELSE NoValidRange
         ELSE NoValidRange

\* lines 405-416 (the first variant leaves out the rounding up of line 408)
BoundsRangeNoRoundUp(bnds) ==
    LET rangeStart == StartOfDay(bnds.start)
        rangeEnd == StartOfDay(bnds.end)
    IN  [set |-> TRUE, start |-> ToISODate(rangeStart), end |-> ToISODate(rangeEnd)]

BoundsRange(bnds) ==
    LET rangeStart == StartOfDay(bnds.start)
        rangeEnd0 == StartOfDay(bnds.end)
        rangeEnd == IF bnds.end > rangeEnd0 THEN rangeEnd0 + MinutesPerDay ELSE rangeEnd0
    IN  [set |-> TRUE, start |-> ToISODate(rangeStart), end |-> ToISODate(rangeEnd)]

\* lines 393-416
ValidRangeOption(class, bnds) ==
    IF bnds.present THEN BoundsRange(bnds) ELSE FallbackRange(class, bnds)

InitialDateOption(class, bnds) ==
    LET vr == ValidRangeOption(class, bnds)
    IN  IF vr.set THEN [set |-> TRUE, date |-> vr.start] ELSE NoDate

(***************************************************************************)
(* renderAgenda (lines 257-420): the event list, the ranges, the sorted    *)
(* copy and the navigation state.                                          *)
(***************************************************************************)
RenderAgenda ==
    /\ ~rendered
    /\ LET events == IF config.isArray THEN config.items ELSE <<>>
           ranges == buildEventRanges([isArray |-> TRUE, items |-> events])
           bnds == getEventBounds(ranges)
       IN  /\ eventRanges' = ranges
           /\ sortedRanges' = SortByStart(ranges)
           /\ bounds' = bnds
           /\ initialDate' = InitialDateOption(calendarClass, bnds)
           /\ validRange' = ValidRangeOption(calendarClass, bnds)
    /\ lastViewStart' = Absent
    /\ lastViewType' = NoType
    /\ isAutoNavigating' = FALSE
    /\ rendered' = TRUE
    /\ UNCHANGED pageVars
    /\ UNCHANGED <<config, calendarClass, probe, info, entry, target, gotoCalls, title, changeViewReq,
                   containerVisible>>

(***************************************************************************)
(* datesSet (lines 333-372).  gotoDate only asks the widget for another    *)
(* window: the signal it causes is the next DatesSet step, whether the     *)
(* widget delivers it inside the call (the handler returns right after     *)
(* it) or later.                                                           *)
(***************************************************************************)
DatesSet(type, currentStart, currentEnd) ==
    /\ rendered
    /\ info' = [type |-> type, currentStart |-> currentStart, currentEnd |-> currentEnd]
    /\ entry' = [lastViewStart |-> lastViewStart, lastViewType |-> lastViewType,
                 isAutoNavigating |-> isAutoNavigating, jumped |-> gotoCalls # <<>>,
                 nested |-> FALSE]
    /\ title' = updateTitle(title, type)
    /\ IF Len(eventRanges) = 0
       THEN /\ target' = Absent
            /\ gotoCalls' = <<>>
            /\ UNCHANGED <<lastViewStart, lastViewType, isAutoNavigating>>
       ELSE LET r == HandleDatesSet(type, currentStart, currentEnd)
            IN  /\ lastViewType' = RecordViewType(lastViewType, type)
                /\ lastViewStart' = r.lastViewStart
                /\ isAutoNavigating' = r.isAutoNavigating
                /\ target' = r.target
                /\ gotoCalls' = r.gotoCalls
    /\ UNCHANGED pageVars
    /\ UNCHANGED <<config, calendarClass, probe, bounds, initialDate, validRange, rendered, eventRanges, sortedRanges, changeViewReq,
                   containerVisible>>

\* viewDidMount (lines 374-378); the first variant also ends a pending jump
ViewDidMountClearsFlag ==
    /\ rendered
    /\ containerVisible' = TRUE
    /\ isAutoNavigating' = FALSE
    /\ UNCHANGED pageVars
    /\ UNCHANGED <<config, calendarClass, probe, bounds, initialDate, validRange, rendered, eventRanges, sortedRanges, lastViewStart,
                   lastViewType, info, entry, target, gotoCalls,
                   title, changeViewReq>>

ViewDidMount ==
    /\ rendered
    /\ containerVisible' = TRUE
    /\ UNCHANGED pageVars
    /\ UNCHANGED <<config, calendarClass, probe, bounds, initialDate, validRange, rendered, eventRanges, sortedRanges, lastViewStart,
                   lastViewType, isAutoNavigating, info, entry, target, gotoCalls,
                   title, changeViewReq>>

\* dateClick (lines 379-383): calendar.changeView("listDay", info.date), for a
\* day of the window on display
DateClick(day) ==
    /\ rendered
    /\ info.currentStart <= day * MinutesPerDay
    /\ day * MinutesPerDay < info.currentEnd
    /\ changeViewReq' = [view |-> "listDay", date |-> day * MinutesPerDay]
    /\ UNCHANGED pageVars
    /\ UNCHANGED <<config, calendarClass, probe, bounds, initialDate, validRange, rendered, eventRanges, sortedRanges, lastViewStart,
                   lastViewType, isAutoNavigating, info, entry, target, gotoCalls,
                   title, containerVisible>>

\* datesSet (lines 333-372) when it calls gotoDate and the widget delivers
\* the signal of the window it lands on inside that call: the outer
\* invocation up to line 365, the nested invocation, the return of line 366.
DatesSetReentrant(type, currentStart, currentEnd, landedStart, landedEnd) ==
    /\ rendered
    /\ Len(eventRanges) > 0
    /\ LET r == HandleDatesSet(type, currentStart, currentEnd)
       IN  /\ r.gotoCalls # <<>>
           /\ LET j == JumpWithNestedSignal(r.lastViewStart, type, landedStart, landedEnd)
              IN  /\ info' = [type |-> type, currentStart |-> landedStart,
                              currentEnd |-> landedEnd]
                  /\ entry' = [lastViewStart |-> r.lastViewStart,
                               lastViewType |-> RecordViewType(lastViewType, type),
                               isAutoNavigating |-> j.atCall, jumped |-> TRUE,
                               nested |-> TRUE]
                  /\ title' = updateTitle(updateTitle(title, type), type)
                  /\ lastViewType' = RecordViewType(RecordViewType(lastViewType, type), type)
                  /\ lastViewStart' = j.after.lastViewStart
                  /\ isAutoNavigating' = j.after.isAutoNavigating
                  /\ target' = j.after.target
                  /\ gotoCalls' = j.after.gotoCalls
    /\ UNCHANGED pageVars
    /\ UNCHANGED <<config, calendarClass, probe, bounds, initialDate, validRange, rendered,
                   eventRanges, sortedRanges, changeViewReq, containerVisible>>

ReentrantSignal ==
    \E type \in ViewTypes : \E w \in ViewWindows(type) : \E l \in ViewWindows(type) :
        DatesSetReentrant(type, w[1], w[2], l[1], l[2])

Signal ==
    \E type \in ViewTypes : \E w \in ViewWindows(type) : DatesSet(type, w[1], w[2])

Click == \E day \in NavDays : DateClick(day)

Next == RenderAgenda \/ Signal \/ ViewDidMount \/ Click

Spec == Init /\ [][Next]_vars

\* the calendar with lists whose ranges tie in the sort: render and signals
NextSort == RenderAgenda \/ Signal

SpecSort == InitSort /\ [][NextSort]_vars

\* the calendar with a widget that delivers the signal of a jump inside
\* gotoDate or after the handler has returned
NextReentrant == RenderAgenda \/ Signal \/ ReentrantSignal

SpecReentrant == Init /\ [][NextReentrant]_vars

NextBuild == RenderAgenda

NextRender == RenderAgenda

SpecRender == InitRender /\ [][NextRender]_vars

(***************************************************************************)
(* Direct calls of the range functions (lines 199-255), as a caller other  *)
(* than renderAgenda makes them: buildEventRanges on the configured value, *)
(* the queries on the list at hand.                                        *)
(***************************************************************************)
CallBuildEventRanges ==
    /\ ~probe.ready
    /\ probe' = [NoProbe EXCEPT !.fn = "buildEventRanges", !.ready = TRUE,
                                 !.ranges = buildEventRanges(config)]
    /\ UNCHANGED pageVars
    /\ UNCHANGED <<config, rendered, eventRanges, sortedRanges, lastViewStart,
                   lastViewType, isAutoNavigating, info, entry, target, gotoCalls,
                   title, changeViewReq, containerVisible, calendarClass, bounds,
                   initialDate, validRange>>

Called(fn, a, b, flag, time, bnds) ==
    /\ probe.ready
    /\ probe' = [fn |-> fn, ready |-> TRUE, ranges |-> probe.ranges, a |-> a, b |-> b,
                 flag |-> flag, time |-> time, bounds |-> bnds]
    /\ UNCHANGED pageVars
    /\ UNCHANGED <<config, rendered, eventRanges, sortedRanges, lastViewStart,
                   lastViewType, isAutoNavigating, info, entry, target, gotoCalls,
                   title, changeViewReq, containerVisible, calendarClass, bounds,
                   initialDate, validRange>>

CallGetEventBounds ==
    Called("getEventBounds", Absent, Absent, FALSE, Absent, getEventBounds(probe.ranges))

CallHasEventsInRange ==
    \E a \in QueryTimes, b \in QueryTimes :
        Called("hasEventsInRange", a, b, hasEventsInRange(probe.ranges, a, b),
               Absent, NoBounds)

CallFindNextEventDate ==
    \E a \in QueryTimes :
        Called("findNextEventDate", a, Absent, FALSE,
               findNextEventDate(probe.ranges, a), NoBounds)

CallFindPrevEventDate ==
    \E a \in QueryTimes :
        Called("findPrevEventDate", a, Absent, FALSE,
               findPrevEventDate(probe.ranges, a), NoBounds)

NextQuery ==
    \/ CallGetEventBounds
    \/ CallHasEventsInRange
    \/ CallFindNextEventDate
    \/ CallFindPrevEventDate

SpecQuery == InitQuery /\ [][NextQuery]_vars

NextPipeline == CallBuildEventRanges \/ NextQuery

SpecPipeline == InitPipeline /\ [][NextPipeline]_vars

SpecBuild == InitBuild /\ [][NextBuild]_vars

(***************************************************************************)
(* The header (src/js/header-bundle.js, lines 85-291).  The page calls     *)
(* initHeaderOnReady while the document is loading or after; the user      *)
(* clicks on the page and moves over the header.                           *)
(***************************************************************************)
\* initHeaderOnReady (lines 280-291): initHeaderToggle runs on both paths,
\* the other two functions only as DOMContentLoaded listeners
InitHeaderOnReady ==
    /\ ~toggleListener
    /\ toggleListener' = TRUE
    /\ headerDeferred' = (readyState = "loading")
    /\ UNCHANGED <<dropdownListeners, hoverListeners, toggleChecked, menuClasses,
                   overlayClasses, dropdownClasses, navbarHeight, lastEvent>>
    /\ UNCHANGED <<readyState, agendaVars, bgVars, hsVars>>

\* DOMContentLoaded on the page of the header: initializeDropdownToggle
\* (lines 193-278) and initializeNavOverlayHover (lines 135-187) run if
\* they were added as listeners
HeaderDOMContentLoaded ==
    /\ readyState = "loading"
    /\ toggleListener
    /\ readyState' = "interactive"
    /\ dropdownListeners' = headerDeferred
    /\ hoverListeners' = headerDeferred
    /\ UNCHANGED <<toggleListener, headerDeferred, toggleChecked, menuClasses,
                   overlayClasses, dropdownClasses, navbarHeight, lastEvent>>
    /\ UNCHANGED <<agendaVars, bgVars, hsVars>>

\* the click listener of initHeaderToggle (lines 92-120) for a target inside
\* .navbar: the values of toggle.checked, the menu classes and the overlay
\* classes after it
ToggleMenu(checked, menu, overlay) ==
    IF ~checked
    THEN [checked |-> TRUE,
          menu |-> (menu \ {"hidden"}) \cup {"block"},
          overlay |-> (overlay \ {"hidden"}) \cup {"block", "h-dvh"}]
    ELSE [checked |-> FALSE,
          menu |-> (menu \ {"block"}) \cup {"hidden"},
          overlay |-> (overlay \ {"h-dvh", "block"}) \cup {"hidden"}]

\* the click listener of a diamond (lines 202-256): the classes of every
\* list after a click on the diamond of dropdown k
DiamondClick(lists, k) ==
    LET isCurrentlyVisible == "block" \in lists[k]
    IN  [d \in DOMAIN lists |->
            IF d # k THEN (lists[d] \ {"block", "lg:flex"}) \cup {"hidden"}
            ELSE IF isCurrentlyVisible
                 THEN (lists[d] \ {"block", "lg:flex"}) \cup {"hidden"}
                 ELSE (lists[d] \ {"hidden"}) \cup {"block", "lg:flex"}]

\* navbar.style.height after the click on the diamond of dropdown k
DiamondHeight(lists, k) == IF "block" \in lists[k] THEN "54px" ELSE "54px+list"

\* the second click listener of the document (lines 266-277), for a target
\* outside every .nav-dropdown
CloseDropdowns(lists) ==
    [d \in DOMAIN lists |-> (lists[d] \ {"lg:flex"}) \cup {"hidden"}]

\* a click on the diamond of dropdown k; inNavbar: the diamond lies inside
\* .navbar.  With its listener added the click stops there
\* (stopPropagation, line 205); without, it reaches the document.
ClickDiamond(k, inNavbar) ==
    /\ toggleListener
    /\ lastEvent' = [kind |-> IF dropdownListeners THEN "diamond" ELSE "click",
                     k |-> k, menuOpen |-> toggleChecked,
                     overlayBefore |-> overlayClasses,
                     listHidden |-> "hidden" \in dropdownClasses[k]]
    /\ IF dropdownListeners
       THEN /\ dropdownClasses' = DiamondClick(dropdownClasses, k)
            /\ navbarHeight' = DiamondHeight(dropdownClasses, k)
            /\ UNCHANGED <<toggleChecked, menuClasses, overlayClasses>>
       ELSE /\ LET t == ToggleMenu(toggleChecked, menuClasses, overlayClasses)
               IN  IF inNavbar
                   THEN /\ toggleChecked' = t.checked
                        /\ menuClasses' = t.menu
                        /\ overlayClasses' = t.overlay
                   ELSE UNCHANGED <<toggleChecked, menuClasses, overlayClasses>>
            /\ UNCHANGED <<dropdownClasses, navbarHeight>>
    /\ UNCHANGED <<toggleListener, headerDeferred, dropdownListeners, hoverListeners>>
    /\ UNCHANGED <<readyState, agendaVars, bgVars, hsVars>>

\* a click on anything else: the two listeners of the document run
ClickElsewhere(inNavbar, inDropdown) ==
    /\ toggleListener
    /\ lastEvent' = [kind |-> "click", k |-> 0, menuOpen |-> toggleChecked,
                     overlayBefore |-> overlayClasses, listHidden |-> FALSE]
    /\ LET t == ToggleMenu(toggleChecked, menuClasses, overlayClasses)
       IN  IF inNavbar
           THEN /\ toggleChecked' = t.checked
                /\ menuClasses' = t.menu
                /\ overlayClasses' = t.overlay
           ELSE UNCHANGED <<toggleChecked, menuClasses, overlayClasses>>
    /\ IF dropdownListeners /\ ~inDropdown
       THEN /\ dropdownClasses' = CloseDropdowns(dropdownClasses)
            /\ navbarHeight' = "54px"
       ELSE UNCHANGED <<dropdownClasses, navbarHeight>>
    /\ UNCHANGED <<toggleListener, headerDeferred, dropdownListeners, hoverListeners>>
    /\ UNCHANGED <<readyState, agendaVars, bgVars, hsVars>>

\* showOverlay (lines 147-152) and hideOverlay (lines 155-159)
showOverlay(overlay) == (overlay \ {"hidden"}) \cup {"block"}

hideOverlay(overlay) == (overlay \ {"block"}) \cup {"hidden"}

\* mouseenter, mouseleave, touchend and touchcancel on #nav (lines 162, 163,
\* 185 and 186), once the listeners are added
HeaderPointer(kind) ==
    /\ hoverListeners
    /\ lastEvent' = [kind |-> kind, k |-> 0, menuOpen |-> toggleChecked,
                     overlayBefore |-> overlayClasses, listHidden |-> FALSE]
    /\ overlayClasses' = IF kind = "mouseenter" THEN showOverlay(overlayClasses)
                         ELSE hideOverlay(overlayClasses)
    /\ UNCHANGED <<toggleListener, headerDeferred, dropdownListeners, hoverListeners,
                   toggleChecked, menuClasses, dropdownClasses, navbarHeight>>
    /\ UNCHANGED <<readyState, agendaVars, bgVars, hsVars>>

PointerKinds == {"mouseenter", "mouseleave", "touchend", "touchcancel"}

HeaderClick ==
    \/ \E k \in Dropdowns : \E inNavbar \in BOOLEAN : ClickDiamond(k, inNavbar)
    \/ \E inNavbar \in BOOLEAN : \E inDropdown \in BOOLEAN :
          ClickElsewhere(inNavbar, inDropdown)

HeaderHover == \E kind \in PointerKinds : HeaderPointer(kind)

InitHeader ==
    /\ readyState \in {"loading", "interactive"}
    /\ AgendaIdle
    /\ HeaderIdle
    /\ BgIdle
    /\ HsIdle

NextHeader == InitHeaderOnReady \/ HeaderDOMContentLoaded \/ HeaderClick \/ HeaderHover

SpecHeader == InitHeader /\ [][NextHeader]_vars

(***************************************************************************)
(* The home page script (src/unnamed/part_001).  The file is evaluated in  *)
(* one piece: its line 456 calls initBgImageScrollOnReady and its lines    *)
(* 549-553 call or defer initHomePage, which calls                          *)
(* initBgImageScrollOnReady again.  DOMContentLoaded arrives before or      *)
(* after the evaluation, never inside it.  A run of the async               *)
(* initBgImageScroll is at one of the stages "returned" (an early return),  *)
(* "rejected" (logo.src read of null), "awaiting" (waitForImageLoad),       *)
(* "frame" (requestAnimationFrame queued) and "created" (the timeline and   *)
(* its ScrollTrigger "bgImageScroll" exist).                                *)
(***************************************************************************)
initBgImageScroll(env) ==
    IF ~env.gsap THEN "returned"
    ELSE IF ~env.scrollTrigger THEN "returned"
    ELSE IF ~env.bgImage THEN "returned"
    ELSE IF ~env.section THEN "returned"
    ELSE IF ~env.logo THEN "rejected"
    ELSE "awaiting"

\* document.addEventListener ignores a listener that is already registered
AddListener(listeners, f) ==
    IF \E i \in 1..Len(listeners) : listeners[i] = f
    THEN listeners
    ELSE Append(listeners, f)

initBgImageScrollOnReady(state, listeners, runs, env) ==
    IF state = "loading"
    THEN [listeners |-> AddListener(listeners, "initBgImageScroll"), runs |-> runs]
    ELSE [listeners |-> listeners, runs |-> Append(runs, initBgImageScroll(env))]

initHomePage(state, listeners, runs, env) ==
    initBgImageScrollOnReady(state, listeners, runs, env)

\* line 456
BgAutoInit ==
    /\ scriptPos = "start"
    /\ LET r == initBgImageScrollOnReady(readyState, bgListeners, bgRuns, bgEnv)
       IN  /\ bgListeners' = r.listeners
           /\ bgRuns' = r.runs
    /\ scriptPos' = "home"
    /\ UNCHANGED <<readyState, bgEnv, bgTriggers>>
    /\ UNCHANGED <<agendaVars, headerVars, hsVars>>

\* lines 549-553
BgHomeInit ==
    /\ scriptPos = "home"
    /\ LET r == IF readyState = "loading"
                THEN [listeners |-> AddListener(bgListeners, "initHomePage"),
                      runs |-> bgRuns]
                ELSE initHomePage(readyState, bgListeners, bgRuns, bgEnv)
       IN  /\ bgListeners' = r.listeners
           /\ bgRuns' = r.runs
    /\ scriptPos' = "done"
    /\ UNCHANGED <<readyState, bgEnv, bgTriggers>>
    /\ UNCHANGED <<agendaVars, headerVars, hsVars>>

\* the registered listeners run in the order of their registration
RECURSIVE RunBgListeners(_, _, _)
RunBgListeners(listeners, runs, env) ==
    IF listeners = <<>> THEN runs
    ELSE RunBgListeners(Tail(listeners),
                        IF Head(listeners) = "initBgImageScroll"
                        THEN Append(runs, initBgImageScroll(env))
                        ELSE initHomePage("interactive", <<>>, runs, env).runs,
                        env)

BgDOMContentLoaded ==
    /\ readyState = "loading"
    /\ scriptPos \in {"start", "done"}
    /\ readyState' = "interactive"
    /\ bgRuns' = RunBgListeners(bgListeners, bgRuns, bgEnv)
    /\ bgListeners' = <<>>
    /\ UNCHANGED <<scriptPos, bgEnv, bgTriggers>>
    /\ UNCHANGED <<agendaVars, headerVars, hsVars>>

\* waitForImageLoad resolves (image complete, load or error): the run
\* queues its animation frame (lines 224-233, 345-348)
BgImageSettled(i) ==
    /\ i \in 1..Len(bgRuns)
    /\ bgRuns[i] = "awaiting"
    /\ bgRuns' = [bgRuns EXCEPT ![i] = "frame"]
    /\ UNCHANGED <<readyState, scriptPos, bgListeners, bgEnv, bgTriggers>>
    /\ UNCHANGED <<agendaVars, headerVars, hsVars>>

\* the animation frame callback: gsap.timeline with a scrollTrigger whose
\* id is "bgImageScroll" (lines 348-439)
BgAnimationFrame(i) ==
    /\ i \in 1..Len(bgRuns)
    /\ bgRuns[i] = "frame"
    /\ bgRuns' = [bgRuns EXCEPT ![i] = "created"]
    /\ bgTriggers' = bgTriggers + 1
    /\ UNCHANGED <<readyState, scriptPos, bgListeners, bgEnv>>
    /\ UNCHANGED <<agendaVars, headerVars, hsVars>>

BgSettle == \E i \in 1..Len(bgRuns) : BgImageSettled(i)

BgFrame == \E i \in 1..Len(bgRuns) : BgAnimationFrame(i)

InitBg ==
    /\ readyState \in {"loading", "interactive"}
    /\ AgendaIdle
    /\ HeaderIdle
    /\ HsIdle
    /\ scriptPos = "start"
    /\ bgListeners = <<>>
    /\ bgEnv \in BgEnvs
    /\ bgRuns = <<>>
    /\ bgTriggers = 0

NextBg == BgAutoInit \/ BgHomeInit \/ BgDOMContentLoaded \/ BgSettle \/ BgFrame

SpecBg == InitBg /\ [][NextBg]_vars

(***************************************************************************)
(* The horizontal scroll of the home page (src/js/pc-bundle.js).  A        *)
(* selector is one of the two the page passes, "[object Event]" (the       *)
(* DOMContentLoaded event, as document.querySelector reads it) and         *)
(* "undefined" (a parameter that received no argument).                    *)
(***************************************************************************)
Widths == {MdBreakpoint - 1, MdBreakpoint}

HomeCall == [outer |-> "#home-componentes", inner |-> "#componentes-container"]

\* what a DOMContentLoaded listener is called with: the event, and nothing more
EventCall == [outer |-> "[object Event]", inner |-> "undefined"]

\* "null", "instance", or "threw": document.querySelector throws a
\* SyntaxError on "[object Event]"; "undefined" is a valid selector that
\* matches nothing
initHorizontalScroll(selector, scrollableElementSelector, width, env) ==
    IF width >= MdBreakpoint THEN "null"
    ELSE IF ~env.gsap THEN "null"
    ELSE IF ~env.scrollTrigger THEN "null"
    ELSE IF selector = "[object Event]" THEN "threw"
    ELSE IF scrollableElementSelector = "[object Event]" THEN "threw"
    ELSE IF ~(selector = HomeCall.outer /\ env.container) THEN "null"
    ELSE IF ~(scrollableElementSelector = HomeCall.inner /\ env.scrollable) THEN "null"
    ELSE "instance"

\* the closure's horizontalScroll after the call, the number of live
\* instances, and whether the call threw
handleHorizontalScroll(width, instance, live, used, env) ==
    LET shouldDisable == width >= MdBreakpoint
        made == initHorizontalScroll(used.outer, used.inner, width, env)
    IN  IF shouldDisable /\ instance = "instance"
        THEN [horizontalScroll |-> "null", live |-> live - 1, threw |-> FALSE]
        ELSE IF ~shouldDisable /\ instance = "null"
        THEN IF made = "threw"
             THEN [horizontalScroll |-> "null", live |-> live, threw |-> TRUE]
             ELSE [horizontalScroll |-> made,
                   live |-> IF made = "instance" THEN live + 1 ELSE live,
                   threw |-> FALSE]
        ELSE [horizontalScroll |-> instance, live |-> live, threw |-> FALSE]

\* lines 483-535: the body past the readyState test, with the arguments
\* of this invocation; a throw at line 525 leaves before the resize
\* listener of line 527 is added
HsBody(used) ==
    LET r == handleHorizontalScroll(innerWidth, "null", hsLive, used, hsEnv)
    IN  /\ hsUsed' = used
        /\ horizontalScroll' = r.horizontalScroll
        /\ hsLive' = r.live
        /\ hsThrew' = r.threw
        /\ hsHandledWidth' = innerWidth
        /\ resizeListener' = ~r.threw
        /\ resizeTimeout' = FALSE

\* the page calls initHomeHorizontalScroll(outer, inner)
initHomeHorizontalScroll ==
    /\ hsCall = NoCall
    /\ hsCall' = HomeCall
    /\ IF readyState = "loading"
       THEN /\ hsDeferred' = TRUE
            /\ UNCHANGED <<hsUsed, horizontalScroll, hsLive, hsThrew, hsHandledWidth,
                           resizeListener, resizeTimeout>>
       ELSE /\ HsBody(HomeCall)
            /\ UNCHANGED hsDeferred
    /\ UNCHANGED <<readyState, hsEnv, innerWidth>>
    /\ UNCHANGED <<agendaVars, headerVars, bgVars>>

\* DOMContentLoaded: the listener of line 479 is initHomeHorizontalScroll
\* itself, called with the event
HsDOMContentLoaded ==
    /\ readyState = "loading"
    /\ readyState' = "interactive"
    /\ IF hsDeferred
       THEN HsBody(EventCall)
       ELSE UNCHANGED <<hsUsed, horizontalScroll, hsLive, hsThrew, hsHandledWidth,
                        resizeListener, resizeTimeout>>
    /\ hsDeferred' = FALSE
    /\ UNCHANGED <<hsCall, hsEnv, innerWidth>>
    /\ UNCHANGED <<agendaVars, headerVars, bgVars>>

\* a resize event: the listener of lines 527-532 clears the pending
\* timeout and sets a new one
HsResize(width) ==
    /\ innerWidth' = width
    /\ resizeTimeout' = resizeListener
    /\ UNCHANGED <<readyState, hsEnv, hsCall, hsDeferred, hsUsed, horizontalScroll,
                   hsLive, hsThrew, resizeListener, hsHandledWidth>>
    /\ UNCHANGED <<agendaVars, headerVars, bgVars>>

\* 250 ms after the last resize: handleHorizontalScroll (lines 529-531)
HsTimeout ==
    /\ resizeTimeout
    /\ LET r == handleHorizontalScroll(innerWidth, horizontalScroll, hsLive, hsUsed,
                                       hsEnv)
       IN  /\ horizontalScroll' = r.horizontalScroll
           /\ hsLive' = r.live
           /\ hsThrew' = (hsThrew \/ r.threw)
    /\ hsHandledWidth' = innerWidth
    /\ resizeTimeout' = FALSE
    /\ UNCHANGED <<readyState, hsEnv, hsCall, hsDeferred, hsUsed, innerWidth,
                   resizeListener>>
    /\ UNCHANGED <<agendaVars, headerVars, bgVars>>

HsResized == \E width \in Widths : HsResize(width)

InitHs ==
    /\ readyState \in {"loading", "interactive"}
    /\ AgendaIdle
    /\ HeaderIdle
    /\ BgIdle
    /\ hsEnv \in HsEnvs
    /\ hsCall = NoCall
    /\ hsDeferred = FALSE
    /\ hsUsed = NoCall
    /\ horizontalScroll = "null"
    /\ hsLive = 0
    /\ hsThrew = FALSE
    /\ innerWidth \in Widths
    /\ resizeListener = FALSE
    /\ resizeTimeout = FALSE
    /\ hsHandledWidth = Absent

NextHs == initHomeHorizontalScroll \/ HsDOMContentLoaded \/ HsResized \/ HsTimeout

SpecHs == InitHs /\ [][NextHs]_vars

(***************************************************************************)
(* Vocabulary of the properties, stated on the ranges as a set and on the  *)
(* record of the last signal, not through the operators of the handler.    *)
(***************************************************************************)
RangeSet == {eventRanges[i] : i \in 1..Len(eventRanges)}

\* a view-change signal has been handled with a non-empty range list
Handled == info.type # NoType /\ Len(eventRanges) > 0

EnteredIdle == Handled /\ ~entry.isAutoNavigating

TrackedKind == info.type \in {"listWeek", "listMonth"}

WindowOverlaps ==
    \E r \in RangeSet : r.start < info.currentEnd /\ r.end > info.currentStart

KindChanged == entry.lastViewType # NoType /\ entry.lastViewType # info.type

\* lastViewStart as the signal found it, after the reset of a kind change
StartBeforeCheck == IF KindChanged THEN Absent ELSE entry.lastViewStart

Backward == StartBeforeCheck # Absent /\ info.currentStart < StartBeforeCheck

StartsFrom(t) == {r.start : r \in {x \in RangeSet : x.start >= t}}

StartsBefore(t) == {r.start : r \in {x \in RangeSet : x.start < t}}

Least(S) == IF S = {} THEN Absent ELSE CHOOSE x \in S : \A y \in S : x <= y

Greatest(S) == IF S = {} THEN Absent ELSE CHOOSE x \in S : \A y \in S : x >= y

\* the nearest event start in the inferred direction
DirectedTarget ==
    IF Backward THEN Greatest(StartsBefore(info.currentStart))
    ELSE Least(StartsFrom(info.currentEnd))

Idle == ~isAutoNavigating

NoJump == gotoCalls = <<>>

(***************************************************************************)
(* C1: a signal that finds isAutoNavigating true and a non-empty range     *)
(* list clears the flag, sets lastViewStart to the start of the signalled  *)
(* window and invokes no jump, for every view kind and whether or not the  *)
(* window contains events.                                                 *)
(***************************************************************************)
C1_AutoNavigatingConsumesSignal ==
    (Handled /\ entry.isAutoNavigating) =>
        (Idle /\ lastViewStart = info.currentStart /\ NoJump)

\* an empty listWeek window with an event after it, consumed while auto-navigating
C1_Witness ==
    /\ Handled /\ entry.isAutoNavigating
    /\ info.type = "listWeek" /\ ~WindowOverlaps
    /\ StartsFrom(info.currentEnd) # {}
    /\ Idle /\ NoJump /\ lastViewStart = info.currentStart

(***************************************************************************)
(* C2: the signal handled right after a signal that invoked a jump invokes *)
(* no jump and leaves the state Idle, so no two consecutive signals jump.  *)
(***************************************************************************)
C2_NoJumpAfterJump ==
    (Handled /\ entry.jumped) => (NoJump /\ Idle)

\* the signal after the jump shows a tracked empty window with events on both sides
C2_Witness ==
    /\ Handled /\ entry.jumped
    /\ TrackedKind /\ ~WindowOverlaps
    /\ StartsFrom(info.currentEnd) # {} /\ StartsBefore(info.currentStart) # {}
    /\ NoJump /\ Idle

(***************************************************************************)
(* C3: in Idle, a tracked view kind, a window that overlaps no range and a *)
(* target in the inferred direction: the flag is set, gotoDate is called   *)
(* exactly once with the calendar date of the target, and lastViewStart is *)
(* not given the start of the signalled window.                            *)
(***************************************************************************)
C3_EmptyWindowJumps ==
    (EnteredIdle /\ TrackedKind /\ ~WindowOverlaps /\ DirectedTarget # Absent) =>
        /\ isAutoNavigating
        /\ gotoCalls = <<ToISODate(DirectedTarget)>>
        /\ lastViewStart = StartBeforeCheck

\* a backward jump to a timed event: the date passed is not the instant found
C3_Witness ==
    /\ EnteredIdle /\ TrackedKind /\ ~WindowOverlaps /\ Backward
    /\ DirectedTarget # Absent
    /\ DirectedTarget # ToISODate(DirectedTarget) * MinutesPerDay
    /\ isAutoNavigating /\ Len(gotoCalls) = 1
    /\ lastViewStart # info.currentStart

(***************************************************************************)
(* C4, as claimed: in Idle, a tracked view kind, an empty window and no    *)
(* target in the inferred direction: the handler stays Idle, invokes no    *)
(* jump and leaves lastViewStart as it was before the emptiness check.     *)
(***************************************************************************)
C4_NoTargetKeepsStart ==
    (EnteredIdle /\ TrackedKind /\ ~WindowOverlaps /\ DirectedTarget = Absent) =>
        (Idle /\ NoJump /\ lastViewStart = StartBeforeCheck)

(***************************************************************************)
(* C4, amended: in Idle, a tracked view kind, an empty window and no       *)
(* target in the inferred direction: the handler stays Idle, invokes no    *)
(* jump and sets lastViewStart to the start of the signalled window.       *)
(***************************************************************************)
C4_NoTargetRecordsStart ==
    (EnteredIdle /\ TrackedKind /\ ~WindowOverlaps /\ DirectedTarget = Absent) =>
        (Idle /\ NoJump /\ lastViewStart = info.currentStart)

\* paging forward past the last event: the recorded start moves to the empty window
C4_Witness ==
    /\ EnteredIdle /\ TrackedKind /\ ~WindowOverlaps /\ DirectedTarget = Absent
    /\ ~Backward /\ StartBeforeCheck # Absent
    /\ StartBeforeCheck # info.currentStart
    /\ Idle /\ NoJump /\ lastViewStart = info.currentStart

(***************************************************************************)
(* C5: in Idle, a tracked view kind and a window that overlaps at least    *)
(* one range: the handler stays Idle, invokes no jump and sets             *)
(* lastViewStart to the start of the window.                               *)
(***************************************************************************)
C5_PopulatedWindowRecordsStart ==
    (EnteredIdle /\ TrackedKind /\ WindowOverlaps) =>
        (Idle /\ NoJump /\ lastViewStart = info.currentStart)

\* a window that overlaps one range and misses another one
C5_Witness ==
    /\ EnteredIdle /\ TrackedKind /\ WindowOverlaps
    /\ \E r \in RangeSet : ~(r.start < info.currentEnd /\ r.end > info.currentStart)
    /\ entry.lastViewStart # info.currentStart
    /\ Idle /\ NoJump /\ lastViewStart = info.currentStart

(***************************************************************************)
(* C6: for an empty tracked window in Idle the target is                   *)
(* findPrevEventDate(sortedRanges, windowStart) exactly when lastViewStart *)
(* is present and windowStart is strictly before it, and                   *)
(* findNextEventDate(sortedRanges, windowEnd) in every other case.         *)
(***************************************************************************)
C6_DirectionInference ==
    (EnteredIdle /\ TrackedKind /\ ~WindowOverlaps) =>
        target = IF StartBeforeCheck # Absent /\ info.currentStart < StartBeforeCheck
                 THEN findPrevEventDate(sortedRanges, info.currentStart)
                 ELSE findNextEventDate(sortedRanges, info.currentEnd)

\* events on both sides of the empty window, the earlier one chosen
C6_Witness ==
    /\ EnteredIdle /\ TrackedKind /\ ~WindowOverlaps
    /\ StartBeforeCheck # Absent /\ info.currentStart < StartBeforeCheck
    /\ findNextEventDate(sortedRanges, info.currentEnd) # Absent
    /\ findPrevEventDate(sortedRanges, info.currentStart) # Absent
    /\ target = findPrevEventDate(sortedRanges, info.currentStart)
    /\ target < info.currentStart

(***************************************************************************)
(* C7: every signal handled with a non-empty range list records its view   *)
(* kind in lastViewType; when that kind differs from the kind recorded     *)
(* before, lastViewStart is absent when the direction is inferred, so an   *)
(* empty tracked window found in Idle searches forward from windowEnd,     *)
(* also when the window starts before the start recorded under the         *)
(* previous kind.                                                          *)
(***************************************************************************)
C7_KindChangeResetsDirection ==
    /\ Handled => lastViewType = info.type
    /\ (EnteredIdle /\ KindChanged /\ TrackedKind /\ ~WindowOverlaps) =>
          /\ target = findNextEventDate(sortedRanges, info.currentEnd)
          /\ target # Absent =>
                /\ gotoCalls = <<ToISODate(target)>>
                /\ lastViewStart = Absent
    /\ (EnteredIdle /\ KindChanged /\ ~TrackedKind) => lastViewStart = Absent

\* the window starts before the start recorded under the other kind, an event
\* lies before it, and the jump goes forward all the same
C7_Witness ==
    /\ EnteredIdle /\ KindChanged /\ TrackedKind /\ ~WindowOverlaps
    /\ entry.lastViewStart # Absent /\ info.currentStart < entry.lastViewStart
    /\ findPrevEventDate(sortedRanges, info.currentStart) # Absent
    /\ target # Absent /\ target >= info.currentEnd
    /\ isAutoNavigating /\ lastViewType = info.type

(***************************************************************************)
(* C8: a signal found in Idle whose view kind is neither listWeek nor      *)
(* listMonth invokes no jump, leaves isAutoNavigating false and does not   *)
(* record the start of its window in lastViewStart, whether or not the     *)
(* window contains events.                                                 *)
(***************************************************************************)
C8_UntrackedKindIgnored ==
    (EnteredIdle /\ ~TrackedKind) =>
        (NoJump /\ Idle /\ lastViewStart = StartBeforeCheck)

\* listDay asked for by dateClick, showing an empty day with an event after it
C8_Witness ==
    /\ EnteredIdle /\ info.type = "listDay"
    /\ changeViewReq.view = "listDay" /\ changeViewReq.date = info.currentStart
    /\ ~WindowOverlaps /\ StartsFrom(info.currentEnd) # {}
    /\ NoJump /\ Idle /\ lastViewStart # info.currentStart

(***************************************************************************)
(* Vocabulary of the normalisation properties: the raw events of the list, *)
(* the entries that yield a range and the place of their range.            *)
(***************************************************************************)
RawItems == IF config.isArray THEN config.items ELSE <<>>

Parseable(s) == s.kind \in {"date", "datetime", "basicdate", "ordinalhour"}

\* the string names a calendar date and no time of day
DateOnly(s) == s.kind \in {"date", "basicdate"}

\* the string carries a time component
HasTime(s) == s.kind \in {"datetime", "ordinalhour"}

YieldsRange(i) == RawItems[i].present /\ Parseable(RawItems[i].start)

\* the position in eventRanges of the range of entry i
RangeIndex(i) == Cardinality({j \in 1..i : YieldsRange(j)})

\* the end of entry i is missing, unparseable, equal to or before its start
DegenerateEnd(i) ==
    \/ ~Parseable(RawItems[i].end)
    \/ FromISO(RawItems[i].end) <= FromISO(RawItems[i].start)

(***************************************************************************)
(* C9: every range buildEventRanges returns has end > start, for all-day   *)
(* and timed events whose end is missing, unparseable, equal to, before or *)
(* after the start.                                                        *)
(***************************************************************************)
C9_RangesHavePositiveWidth ==
    rendered => \A i \in 1..Len(eventRanges) : eventRanges[i].end > eventRanges[i].start

\* a timed event whose end lies before its start has been normalised
C9_Witness ==
    /\ rendered
    /\ \E i \in 1..Len(RawItems) :
          /\ YieldsRange(i) /\ RawItems[i].allDay # "true"
          /\ Parseable(RawItems[i].end)
          /\ FromISO(RawItems[i].end) < FromISO(RawItems[i].start)
          /\ RangeIndex(i) <= Len(eventRanges)
          /\ eventRanges[RangeIndex(i)].end > eventRanges[RangeIndex(i)].start

(***************************************************************************)
(* C10: an all-day raw event whose end is missing, unparseable, equal to   *)
(* or before its start yields the range [start, start + 1 day).            *)
(***************************************************************************)
C10_DegenerateAllDaySpansOneDay ==
    rendered =>
        \A i \in 1..Len(RawItems) :
            (YieldsRange(i) /\ RawItems[i].allDay = "true" /\ DegenerateEnd(i)) =>
                /\ RangeIndex(i) <= Len(eventRanges)
                /\ eventRanges[RangeIndex(i)] =
                      [start |-> FromISO(RawItems[i].start),
                       end |-> FromISO(RawItems[i].start) + MinutesPerDay]

\* the scenario {start: date, end: the same date, allDay: true}
C10_Witness ==
    /\ rendered
    /\ \E i \in 1..Len(RawItems) :
          /\ YieldsRange(i) /\ RawItems[i].allDay = "true"
          /\ RawItems[i].start.kind = "date" /\ RawItems[i].end = RawItems[i].start
          /\ eventRanges[RangeIndex(i)].end =
                eventRanges[RangeIndex(i)].start + MinutesPerDay

\* the parsed end of entry i lies after its start
EndAfterStart(i) ==
    Parseable(RawItems[i].end) /\ FromISO(RawItems[i].end) > FromISO(RawItems[i].start)

\* the range of entry i
RangeOf(i) == eventRanges[RangeIndex(i)]

(***************************************************************************)
(* C11: a timed raw event (allDay absent or false) whose end is missing,   *)
(* unparseable, equal to or before its start yields the range              *)
(* [start, start + 1 minute).                                              *)
(***************************************************************************)
C11_DegenerateTimedSpansOneMinute ==
    rendered =>
        \A i \in 1..Len(RawItems) :
            (YieldsRange(i) /\ RawItems[i].allDay # "true" /\ DegenerateEnd(i)) =>
                /\ RangeIndex(i) <= Len(eventRanges)
                /\ RangeOf(i) = [start |-> FromISO(RawItems[i].start),
                                 end |-> FromISO(RawItems[i].start) + 1]

\* a timed event whose end is a valid instant before its start
C11_Witness ==
    /\ rendered
    /\ \E i \in 1..Len(RawItems) :
          /\ YieldsRange(i) /\ RawItems[i].allDay = "absent"
          /\ Parseable(RawItems[i].end)
          /\ FromISO(RawItems[i].end) < FromISO(RawItems[i].start)
          /\ RangeOf(i).end = RangeOf(i).start + 1

(***************************************************************************)
(* C12: for an all-day raw event whose parsed end is after its start the   *)
(* derived end is the parsed end plus one day when the raw end is a        *)
(* date-only string of 10 characters and the parsed end unchanged when the *)
(* raw end carries a time component; a timed event whose end is after its  *)
(* start keeps its parsed end.                                             *)
(***************************************************************************)
C12_DateOnlyEndIsInclusive ==
    rendered =>
        \A i \in 1..Len(RawItems) :
            (YieldsRange(i) /\ EndAfterStart(i)) =>
                /\ (RawItems[i].allDay = "true" /\ DateOnly(RawItems[i].end)
                        /\ StrLen(RawItems[i].end) = 10) =>
                      RangeOf(i).end = FromISO(RawItems[i].end) + MinutesPerDay
                /\ (RawItems[i].allDay = "true" /\ HasTime(RawItems[i].end)) =>
                      RangeOf(i).end = FromISO(RawItems[i].end)
                /\ RawItems[i].allDay # "true" =>
                      RangeOf(i).end = FromISO(RawItems[i].end)

(***************************************************************************)
(* Vocabulary of the direct calls: the entries of the configured value,    *)
(* whether or not an array holds them, and the list a query was given.     *)
(***************************************************************************)
GivenItems == config.items

GivenYields(i) == GivenItems[i].present /\ Parseable(GivenItems[i].start)

GivenIndex(i) == Cardinality({j \in 1..i : GivenYields(j)})

ProbeSet == {probe.ranges[i] : i \in 1..Len(probe.ranges)}

ProbeSorted ==
    \A i \in 1..Len(probe.ranges) : \A j \in i..Len(probe.ranges) :
        probe.ranges[i].start <= probe.ranges[j].start

(***************************************************************************)
(* C13: buildEventRanges returns one range for each entry that is present  *)
(* and has a parseable start, in the order of the input, no range for any  *)
(* other entry, and the empty sequence when the input is no sequence.      *)
(***************************************************************************)
C13_OneRangePerValidEntryInOrder ==
    probe.ready =>
        IF ~config.isArray THEN probe.ranges = <<>>
        ELSE /\ Len(probe.ranges) = GivenIndex(Len(GivenItems))
             /\ \A i \in 1..Len(GivenItems) :
                   GivenYields(i) =>
                       /\ probe.ranges[GivenIndex(i)].start = FromISO(GivenItems[i].start)
                       /\ probe.ranges[GivenIndex(i)].end > FromISO(GivenItems[i].start)

\* two valid entries, the later one first: the output keeps that order
C13_Witness ==
    /\ probe.ready /\ config.isArray /\ Len(GivenItems) = 2
    /\ GivenYields(1) /\ GivenYields(2)
    /\ FromISO(GivenItems[1].start) > FromISO(GivenItems[2].start)
    /\ Len(probe.ranges) = 2
    /\ probe.ranges[1].start > probe.ranges[2].start

(***************************************************************************)
(* C14: hasEventsInRange(ranges, a, b) is true if and only if some range   *)
(* has start < b and end > a; a range that ends at a or starts at b does   *)
(* not make it true.                                                       *)
(***************************************************************************)
C14_StrictOverlap ==
    probe.fn = "hasEventsInRange" =>
        (probe.flag <=> \E r \in ProbeSet : r.start < probe.b /\ r.end > probe.a)

\* one range ends at a, another starts at b, none overlaps
C14_Witness ==
    /\ probe.fn = "hasEventsInRange" /\ probe.a < probe.b
    /\ \E r \in ProbeSet : r.end = probe.a
    /\ \E r \in ProbeSet : r.start = probe.b
    /\ ~probe.flag

(***************************************************************************)
(* C15: on a list sorted ascending by start, findNextEventDate returns the *)
(* smallest range start >= t (a start equal to t qualifies) and absent     *)
(* when there is none.                                                     *)
(***************************************************************************)
C15_NextIsLeastStartFrom ==
    (probe.fn = "findNextEventDate" /\ ProbeSorted) =>
        probe.time = Least({r.start : r \in {x \in ProbeSet : x.start >= probe.a}})

\* an earlier start is skipped, the start equal to t is returned
C15_Witness ==
    /\ probe.fn = "findNextEventDate" /\ ProbeSorted /\ Len(probe.ranges) = 2
    /\ probe.ranges[1].start < probe.a /\ probe.ranges[2].start = probe.a
    /\ probe.time = probe.a

(***************************************************************************)
(* C16: on a list sorted ascending by start, findPrevEventDate returns the *)
(* largest range start < t (a start equal to t does not qualify) and       *)
(* absent when there is none.                                              *)
(***************************************************************************)
C16_PrevIsGreatestStartBefore ==
    (probe.fn = "findPrevEventDate" /\ ProbeSorted) =>
        probe.time = Greatest({r.start : r \in {x \in ProbeSet : x.start < probe.a}})

\* the start equal to t is passed over for the earlier one
C16_Witness ==
    /\ probe.fn = "findPrevEventDate" /\ ProbeSorted /\ Len(probe.ranges) = 2
    /\ probe.ranges[1].start < probe.a /\ probe.ranges[2].start = probe.a
    /\ probe.time = probe.ranges[1].start

(***************************************************************************)
(* C17: getEventBounds is absent for an empty list; for a non-empty list   *)
(* its start is the minimum of the range starts and its end the maximum of *)
(* the range ends, whatever the order of the list.                         *)
(***************************************************************************)
C17_BoundsAreMinStartMaxEnd ==
    probe.fn = "getEventBounds" =>
        IF Len(probe.ranges) = 0 THEN probe.bounds = NoBounds
        ELSE /\ probe.bounds.present
             /\ probe.bounds.start = Least({r.start : r \in ProbeSet})
             /\ probe.bounds.end = Greatest({r.end : r \in ProbeSet})
             /\ \A r \in ProbeSet :
                   probe.bounds.start <= r.start /\ probe.bounds.end >= r.end

\* the minimum start is in the second range, the maximum end in the first
C17_Witness ==
    /\ probe.fn = "getEventBounds" /\ Len(probe.ranges) = 2
    /\ probe.ranges[2].start < probe.ranges[1].start
    /\ probe.ranges[2].end < probe.ranges[1].end
    /\ probe.bounds.start = probe.ranges[2].start
    /\ probe.bounds.end = probe.ranges[1].end

(***************************************************************************)
(* C18: for an empty event list buildEventRanges yields no range,          *)
(* getEventBounds is absent, hasEventsInRange is false for every window    *)
(* and findNextEventDate and findPrevEventDate are absent for every        *)
(* reference point.                                                        *)
(***************************************************************************)
C18_EmptyListAnswers ==
    (probe.ready /\ config.isArray /\ Len(GivenItems) = 0) =>
        /\ probe.ranges = <<>>
        /\ probe.fn = "getEventBounds" => probe.bounds = NoBounds
        /\ probe.fn = "hasEventsInRange" => ~probe.flag
        /\ probe.fn \in {"findNextEventDate", "findPrevEventDate"} => probe.time = Absent

\* a window of positive width asked of the ranges of the empty list
C18_Witness ==
    /\ probe.ready /\ config.isArray /\ Len(GivenItems) = 0
    /\ probe.fn = "hasEventsInRange" /\ probe.a < probe.b
    /\ ~probe.flag

(***************************************************************************)
(* C19, as claimed: when the event list is absent or yields no range,      *)
(* renderAgenda sets no validRange, whatever the classes of #calendar.     *)
(***************************************************************************)
C19_NoBoundsNoValidRange ==
    (rendered /\ ~bounds.present) => ~validRange.set

(***************************************************************************)
(* C19, amended: bounds is absent exactly when the event list is absent or *)
(* yields no range; renderAgenda then sets no validRange and no            *)
(* initialDate only when #calendar is neither agenda-encuentros nor        *)
(* agenda-principal; for agenda-encuentros it sets the fixed range         *)
(* 2025-11-25 to 2025-12-08 and for agenda-principal (without              *)
(* agenda-encuentros) 2025-05-01 to 2026-01-01, with initialDate the start *)
(* of the range.                                                           *)
(***************************************************************************)
C19_NoBoundsFallsBackToVariantRange ==
    rendered =>
        /\ bounds.present <=> \E i \in 1..Len(RawItems) : YieldsRange(i)
        /\ ~bounds.present =>
              /\ validRange =
                    IF calendarClass.encuentros
                    THEN [set |-> TRUE, start |-> EncuentrosStartDay, end |-> EncuentrosEndDay]
                    ELSE IF calendarClass.principal
                         THEN [set |-> TRUE, start |-> PrincipalStartDay,
                               end |-> PrincipalEndDay]
                         ELSE NoValidRange
              /\ initialDate =
                    IF validRange.set THEN [set |-> TRUE, date |-> validRange.start]
                    ELSE NoDate

\* a list of entries that yield no range, on a calendar with both classes
C19_Witness ==
    /\ rendered /\ ~bounds.present
    /\ config.isArray /\ Len(config.items) > 0
    /\ calendarClass.encuentros /\ calendarClass.principal
    /\ validRange.set /\ validRange.start = EncuentrosStartDay
    /\ initialDate.set

(***************************************************************************)
(* C20, as claimed: at render isAutoNavigating is false and lastViewStart  *)
(* and lastViewType are absent; for any event list the first view-change   *)
(* signal records its view kind in lastViewType.                           *)
(***************************************************************************)
C20_FirstSignalRecordsKind ==
    /\ (rendered /\ info = NoInfo) =>
          (~isAutoNavigating /\ lastViewStart = Absent /\ lastViewType = NoType)
    /\ (info # NoInfo /\ entry.lastViewType = NoType) => lastViewType = info.type

(***************************************************************************)
(* C20, amended: at render isAutoNavigating is false and lastViewStart and *)
(* lastViewType are absent; for any event list that yields at least one    *)
(* range the first view-change signal records its view kind in             *)
(* lastViewType.                                                           *)
(***************************************************************************)
C20_FirstSignalRecordsKindWithRanges ==
    /\ (rendered /\ info = NoInfo) =>
          (~isAutoNavigating /\ lastViewStart = Absent /\ lastViewType = NoType)
    /\ (info # NoInfo /\ entry.lastViewType = NoType /\ Len(eventRanges) > 0) =>
          lastViewType = info.type

\* the first signal, of an untracked kind
C20_Witness ==
    /\ info # NoInfo /\ entry.lastViewType = NoType /\ Len(eventRanges) > 0
    /\ info.type = "listDay" /\ lastViewType = "listDay"

(***************************************************************************)
(* C21: once a jump has been invoked isAutoNavigating stays true until the *)
(* next view-change signal is handled: a step that is no signal            *)
(* (viewDidMount, dateClick, or no step at all) leaves it true, so without *)
(* a follow-up signal the state stays AutoNavigating forever; the next     *)
(* signal, whatever its kind and window, is consumed: the flag is cleared, *)
(* the start of its window is recorded and no jump is invoked.             *)
(***************************************************************************)
C21_FlagHeldUntilNextSignal ==
    [][isAutoNavigating =>
          IF info' = info /\ entry' = entry
          THEN isAutoNavigating'
          ELSE /\ entry'.isAutoNavigating
               /\ ~isAutoNavigating'
               /\ gotoCalls' = <<>>
               /\ lastViewStart' = info'.currentStart]_vars

\* a jump is pending, and the page was clicked and the view mounted while
\* the window that caused the jump is still the last one signalled
C21_Witness ==
    /\ isAutoNavigating /\ gotoCalls # <<>>
    /\ containerVisible
    /\ changeViewReq.view = "listDay"
    /\ info.currentStart <= changeViewReq.date /\ changeViewReq.date < info.currentEnd

(***************************************************************************)
(* C24: the list the handler passes to findNextEventDate and               *)
(* findPrevEventDate is a permutation of the ranges buildEventRanges       *)
(* built, ascending by start, ranges of equal start in input order; the    *)
(* unsorted list keeps the input order; both are the same in every state   *)
(* after render, whatever signals were handled; and the target of every    *)
(* search is the nearest start in the direction, as a scan of a sorted     *)
(* list finds it.                                                          *)
(***************************************************************************)
StablePermutations ==
    {p \in [1..Len(eventRanges) -> 1..Len(eventRanges)] :
        /\ \A i \in DOMAIN p : \A j \in DOMAIN p : p[i] = p[j] => i = j
        /\ \A i \in DOMAIN p : sortedRanges[i] = eventRanges[p[i]]
        /\ \A i \in DOMAIN p : \A j \in DOMAIN p :
              i < j => \/ sortedRanges[i].start < sortedRanges[j].start
                       \/ /\ sortedRanges[i].start = sortedRanges[j].start
                          /\ p[i] < p[j]}

C24_SearchesUseStableSortedCopy ==
    rendered =>
        /\ Len(sortedRanges) = Len(eventRanges)
        /\ StablePermutations # {}
        /\ Len(eventRanges) = RangeIndex(Len(RawItems))
        /\ \A i \in 1..Len(RawItems) :
              YieldsRange(i) => RangeOf(i).start = FromISO(RawItems[i].start)
        /\ (EnteredIdle /\ TrackedKind /\ ~WindowOverlaps) => target = DirectedTarget

\* two ranges of equal start, the longer one first in the input and in the
\* sorted copy, and a search that returned their start
C24_Witness ==
    /\ rendered /\ Len(eventRanges) = 2
    /\ eventRanges[1].start = eventRanges[2].start
    /\ eventRanges[1].end > eventRanges[2].end
    /\ sortedRanges[1].end > sortedRanges[2].end
    /\ EnteredIdle /\ TrackedKind /\ ~WindowOverlaps
    /\ target = sortedRanges[1].start

(***************************************************************************)
(* C26: whenever the handler invokes a jump, every window that contains    *)
(* the date it passed overlaps at least one event range; so when the next  *)
(* signal brings a window that contains that date, the window on display   *)
(* after the auto-navigation is not empty.                                 *)
(***************************************************************************)
AllWindows == UNION {ViewWindows(type) : type \in ViewTypes}

JumpDate == gotoCalls[1] * MinutesPerDay

Overlapped(viewStart, viewEnd) ==
    \E r \in RangeSet : r.start < viewEnd /\ r.end > viewStart

C26_JumpLandsOnEvents ==
    [][gotoCalls # <<>> =>
          /\ \A w \in AllWindows :
                (w[1] <= JumpDate /\ JumpDate < w[2]) => Overlapped(w[1], w[2])
          /\ ( /\ entry' # entry
               /\ info'.currentStart <= JumpDate
               /\ JumpDate < info'.currentEnd ) =>
                   Overlapped(info'.currentStart, info'.currentEnd)]_vars

\* the signal after a forward jump to an all-day event brought the day of
\* the event, which the event fills
C26_Witness ==
    /\ Handled /\ entry.isAutoNavigating /\ entry.jumped
    /\ info.type = "listDay"
    /\ \E r \in RangeSet : r.start = info.currentStart /\ r.end = info.currentEnd
    /\ Idle /\ NoJump

(***************************************************************************)
(* C27: whenever the handler invokes a jump, the target lies outside the   *)
(* window that caused it: a forward target is at or after the end of the   *)
(* window, a backward target strictly before its start, and the date       *)
(* passed to the widget is no day of the window.                           *)
(***************************************************************************)
C27_JumpLeavesWindow ==
    (Handled /\ gotoCalls # <<>>) =>
        /\ IF Backward
           THEN target < info.currentStart /\ JumpDate < info.currentStart
           ELSE target >= info.currentEnd /\ JumpDate >= info.currentEnd
        /\ ~(info.currentStart <= target /\ target < info.currentEnd)
        /\ ~(info.currentStart <= JumpDate /\ JumpDate < info.currentEnd)

\* a forward jump to an event that starts exactly where the window ends
C27_Witness ==
    /\ Handled /\ gotoCalls # <<>> /\ ~Backward
    /\ target = info.currentEnd
    /\ JumpDate = info.currentEnd

(***************************************************************************)
(* C28: when the range list is not empty, validRange starts on the day of  *)
(* the earliest range start and ends on the first day boundary at or after *)
(* the latest range end, so every range lies inside it; initialDate is its *)
(* start; and every date the handler passes to a jump lies inside it.      *)
(***************************************************************************)
EarliestStart == Least({r.start : r \in RangeSet})

LatestEnd == Greatest({r.end : r \in RangeSet})

C28_ValidRangeCoversRangesAndJumps ==
    (rendered /\ Len(eventRanges) > 0) =>
        /\ validRange.set
        /\ validRange.start * MinutesPerDay <= EarliestStart
        /\ EarliestStart < (validRange.start + 1) * MinutesPerDay
        /\ LatestEnd <= validRange.end * MinutesPerDay
        /\ (validRange.end - 1) * MinutesPerDay < LatestEnd
        /\ \A r \in RangeSet :
              /\ validRange.start * MinutesPerDay <= r.start
              /\ r.end <= validRange.end * MinutesPerDay
        /\ initialDate = [set |-> TRUE, date |-> validRange.start]
        /\ gotoCalls # <<>> =>
              (validRange.start <= gotoCalls[1] /\ gotoCalls[1] < validRange.end)

\* the latest range ends within a day and the handler jumped to its day, the
\* last day of validRange
C28_Witness ==
    /\ rendered /\ Len(eventRanges) > 0
    /\ LatestEnd > StartOfDay(LatestEnd)
    /\ gotoCalls # <<>>
    /\ gotoCalls[1] = validRange.end - 1
    /\ validRange.start < gotoCalls[1]

(***************************************************************************)
(* C23: the flag is raised before gotoDate is called, so the signal of the *)
(* jump finds it raised and is consumed, whether the widget delivers it    *)
(* inside the gotoDate call or after the handler has returned: either way  *)
(* the state ends Idle, lastViewStart is the start of the window landed    *)
(* on, and the jump of the outer invocation is the only one invoked.       *)
(***************************************************************************)
C23_JumpSignalConsumedInBothOrders ==
    /\ gotoCalls # <<>> => (isAutoNavigating /\ Len(gotoCalls) = 1)
    /\ (Handled /\ entry.jumped) =>
          /\ entry.isAutoNavigating
          /\ Idle
          /\ lastViewStart = info.currentStart
          /\ NoJump

\* the signal came inside the gotoDate call and brought an empty window of a
\* tracked kind, which the handler would have left had the flag been down
C23_Witness ==
    /\ Handled /\ entry.jumped /\ entry.nested
    /\ TrackedKind /\ ~WindowOverlaps
    /\ Idle /\ NoJump /\ lastViewStart = info.currentStart

(***************************************************************************)
(* C22: while the mobile menu is open (nav-toggle checked after a click    *)
(* inside .navbar) the mouseenter, mouseleave, touchend and touchcancel    *)
(* handlers of the header do not change the visibility of the nav overlay: *)
(* the overlay stays shown for as long as the menu is open.                *)
(***************************************************************************)
OverlayShown == "block" \in overlayClasses /\ "hidden" \notin overlayClasses

C22_HoverDisabledWhileMenuOpen ==
    /\ (lastEvent.kind \in PointerKinds /\ lastEvent.menuOpen) =>
          overlayClasses = lastEvent.overlayBefore
    /\ toggleChecked => OverlayShown

(***************************************************************************)
(* C25: after any sequence of diamond clicks and clicks outside every      *)
(* .nav-dropdown, a click on a diamond shows its list when the list was    *)
(* hidden and hides it when it was shown, the lists of the other dropdowns *)
(* are hidden afterwards, at most one list is shown at a time and no list  *)
(* carries the classes "block" and "hidden" together.                      *)
(***************************************************************************)
ListHidden(k) == "hidden" \in dropdownClasses[k]

C25_DiamondTogglesOneDropdown ==
    dropdownListeners =>
        /\ \A k \in Dropdowns : ~({"block", "hidden"} \subseteq dropdownClasses[k])
        /\ Cardinality({k \in Dropdowns : ~ListHidden(k)}) <= 1
        /\ lastEvent.kind = "diamond" =>
              /\ ListHidden(lastEvent.k) <=> ~lastEvent.listHidden
              /\ \A k \in Dropdowns \ {lastEvent.k} : ListHidden(k)

\* C29: in every load order initBgImageScroll runs at most once, and at
\* most one ScrollTrigger with id "bgImageScroll" is created.
C29_BgScrollSetUpOnce == Len(bgRuns) <= 1 /\ bgTriggers <= 1

\* C30: the initialisation that runs for a call of
\* initHomeHorizontalScroll(outer, inner), deferred to DOMContentLoaded or
\* not, uses the selectors of that call; an instance exists only while
\* the width at the last handled resize was below 768, and never two
\* instances live at once.
C30_DeferredInitKeepsSelectors ==
    /\ hsUsed # NoCall => hsUsed = hsCall
    /\ horizontalScroll = "instance" =>
           hsHandledWidth # Absent /\ hsHandledWidth < MdBreakpoint
    /\ hsLive <= 1

====
